---------------------------- MODULE Spec2Model ----------------------------
(***************************************************************************)
(* pngme: the chunk type code (chunk_type.rs), the chunk codec (chunk.rs)  *)
(* and the four commands (commands.rs) over a small file system.           *)
(*                                                                         *)
(* Bytes are integers 0..255, byte slices are sequences of bytes, u32      *)
(* values are pairs of 16-bit halves.  A Rust String is the sequence of its    *)
(* code points; its bytes are the UTF-8 encoding of that sequence.         *)
(* A Result is a record with a "status" field: "ok", "err" (an Err value   *)
(* returned to the caller) or "panic" (the thread unwinds).                *)
(***************************************************************************)
EXTENDS Integers, Sequences, FiniteSets, TLC

VARIABLES
    chunk,      \* chunk.rs: the Chunk built by Chunk::new
    wire,       \* the byte slice handed to Chunk::try_from
    tamper,     \* how `wire` came to be
    parsed,     \* the Result of Chunk::try_from(wire)
    reser,      \* as_bytes() of the parsed chunk
    tinput,     \* chunk_type.rs: the input a ChunkType was last built from
    ctype,      \* the Result of that construction
    ttext,      \* the Result of to_string() on it
    fs,         \* commands.rs: path -> file content
    fs0,        \* the file system when the last command started
    last        \* the last command and how it ended

chunkVars == <<chunk, wire, tamper, parsed, reser>>
typeVars  == <<tinput, ctype, ttext>>
cmdVars   == <<fs, fs0, last>>
vars      == <<chunk, wire, tamper, parsed, reser, tinput, ctype, ttext, fs, fs0, last>>

----------------------------------------------------------------------------
(* Bounds of the model.                                                    *)

\* longest payload given to Chunk::new (the reference vector aside)
MaxPayload == 2
\* longest string (in characters) given to ChunkType::from_str
MaxStrLen == 5
\* most chunks a file may hold for encode to be tried on it
MaxChunks == 2

----------------------------------------------------------------------------
(* Integers as machine words.                                              *)

\* A u32 is the pair <<hi, lo>> of its 16-bit halves: its value is
\* hi * 2^16 + lo.
Half == 2 ^ 16

\* bitwise exclusive or of two 4-bit naturals, tabulated
Xor4 ==
    [x \in 0..15 |-> [y \in 0..15 |->
        ((x + y) % 2)
        + 2 * (((x \div 2) + (y \div 2)) % 2)
        + 4 * (((x \div 4) + (y \div 4)) % 2)
        + 8 * (((x \div 8) + (y \div 8)) % 2)]]

\* bitwise exclusive or of two 16-bit naturals
Xor(a, b) ==
    Xor4[a % 16][b % 16]
    + 16 * Xor4[(a \div 16) % 16][(b \div 16) % 16]
    + 256 * Xor4[(a \div 256) % 16][(b \div 256) % 16]
    + 4096 * Xor4[(a \div 4096) % 16][(b \div 4096) % 16]

\* a ^ b on u32
Xor32(a, b) == << Xor(a[1], b[1]), Xor(a[2], b[2]) >>

\* a >> 1 on u32
Shr1(a) == << a[1] \div 2, (a[2] \div 2) + (a[1] % 2) * (Half \div 2) >>

\* bit k (0 = least significant) of the byte n
Bit(n, k) == (n \div (2 ^ k)) % 2

\* u32::to_be_bytes
ToBeBytes(n) == << n[1] \div 256, n[1] % 256, n[2] \div 256, n[2] % 256 >>

\* usize as u32 (a length of the model is below 2^31)
AsU32(n) == << (n \div Half) % Half, n % Half >>

RECURSIVE Digits(_)
\* the decimal digits of a u32 (empty for 0), most significant first
Digits(n) ==
    IF n = << 0, 0 >> THEN << >>
    ELSE LET r == (n[1] % 10) * Half + n[2]
         IN  Append(Digits(<< n[1] \div 10, r \div 10 >>), r % 10)

\* the slice value[from..to) of Rust, as a sequence (from, to are 0-based)
Slice(s, from, to) == SubSeq(s, from + 1, to)

----------------------------------------------------------------------------
(* UTF-8, as std::str::from_utf8, String::len and str::as_bytes see it.    *)

\* the UTF-8 encoding of one code point
Utf8Char(c) ==
    IF c < 128 THEN << c >>
    ELSE IF c < 2048 THEN << 192 + (c \div 64), 128 + (c % 64) >>
    ELSE IF c < 65536 THEN
        << 224 + (c \div 4096), 128 + ((c \div 64) % 64), 128 + (c % 64) >>
    ELSE << 240 + (c \div 262144), 128 + ((c \div 4096) % 64),
            128 + ((c \div 64) % 64), 128 + (c % 64) >>

RECURSIVE Utf8Encode(_)
\* str::as_bytes / String::into_bytes: the bytes of a string
Utf8Encode(s) ==
    IF s = << >> THEN << >> ELSE Utf8Char(Head(s)) \o Utf8Encode(Tail(s))

IsCont(b) == b \in 128..191

\* the number of bytes of the well-formed UTF-8 sequence b starts with, 0 if none
Utf8Width(b) ==
    IF b = << >> THEN 0
    ELSE LET b1 == b[1]
             n  == Len(b)
         IN  IF b1 < 128 THEN 1
             ELSE IF b1 \in 194..223 /\ n >= 2 /\ IsCont(b[2]) THEN 2
             ELSE IF b1 \in 224..239 /\ n >= 3 /\ IsCont(b[3])
                     /\ b[2] \in (IF b1 = 224 THEN 160..191
                                  ELSE IF b1 = 237 THEN 128..159 ELSE 128..191)
                  THEN 3
             ELSE IF b1 \in 240..244 /\ n >= 4 /\ IsCont(b[3]) /\ IsCont(b[4])
                     /\ b[2] \in (IF b1 = 240 THEN 144..191
                                  ELSE IF b1 = 244 THEN 128..143 ELSE 128..191)
                  THEN 4
             ELSE 0

RECURSIVE Utf8Valid(_)
\* std::str::from_utf8(b).is_ok()
Utf8Valid(b) ==
    IF b = << >> THEN TRUE
    ELSE LET w == Utf8Width(b)
         IN  w > 0 /\ Utf8Valid(SubSeq(b, w + 1, Len(b)))

RECURSIVE Utf8Decode(_)
\* the characters of valid UTF-8 bytes
Utf8Decode(b) ==
    IF b = << >> THEN << >>
    ELSE LET w == Utf8Width(b)
             c == CASE w = 1 -> b[1]
                    [] w = 2 -> (b[1] - 192) * 64 + (b[2] - 128)
                    [] w = 3 -> (b[1] - 224) * 4096 + (b[2] - 128) * 64 + (b[3] - 128)
                    [] OTHER -> (b[1] - 240) * 262144 + (b[2] - 128) * 4096
                                + (b[3] - 128) * 64 + (b[4] - 128)
         IN  << c >> \o Utf8Decode(SubSeq(b, w + 1, Len(b)))

\* std::str::from_utf8
FromUtf8(b) ==
    IF Utf8Valid(b) THEN [status |-> "ok", text |-> Utf8Decode(b)]
    ELSE [status |-> "err", error |-> "Utf8Error"]

----------------------------------------------------------------------------
(* chunk_type.rs                                                           *)

\* char::is_ascii_alphabetic
IsAsciiAlphabetic(c) == c \in 65..90 \/ c \in 97..122

\* fn is_uppercase(b: u8): (b as char).is_uppercase(), over U+0000..U+00FF
is_uppercase(b) == b \in 65..90 \/ b \in 192..214 \/ b \in 216..222

\* fn is_lowercase(b: u8): (b as char).is_lowercase(), over U+0000..U+00FF
is_lowercase(b) ==
    b \in 97..122 \/ b \in {170, 181, 186} \/ b \in 223..246 \/ b \in 248..255

\* impl TryFrom<[u8; 4]> for ChunkType
ChunkTypeTryFrom(value) == [status |-> "ok", ct |-> value]

\* a plausible slip: from_str forgets the alphabetic check
ChunkTypeFromStrNoAlpha(s) ==
    IF Len(Utf8Encode(s)) # 4
        THEN [status |-> "err", error |-> "str is not 4 bytes long"]
    ELSE [status |-> "ok", ct |-> Utf8Encode(s)]

\* impl FromStr for ChunkType
ChunkTypeFromStr(s) ==
    IF Len(Utf8Encode(s)) # 4
        THEN [status |-> "err", error |-> "str is not 4 bytes long"]
    ELSE IF ~(\A i \in 1..Len(s) : IsAsciiAlphabetic(s[i]))
        THEN [status |-> "err", error |-> "str is not ascii alphabetic"]
    ELSE [status |-> "ok", ct |-> Utf8Encode(s)]

\* impl Display for ChunkType: from_utf8(&self.0).unwrap()
ChunkTypeToString(ct) ==
    IF Utf8Valid(ct) THEN [status |-> "ok", text |-> Utf8Decode(ct)]
    ELSE [status |-> "panic"]

\* ChunkType::bytes
bytes(ct) == ct

is_critical(ct) == is_uppercase(ct[1])

is_public(ct) == is_uppercase(ct[2])

is_reserved_bit_valid(ct) == is_uppercase(ct[3])

is_safe_to_copy(ct) == is_lowercase(ct[4])

is_valid(ct) == ~is_public(ct) /\ is_reserved_bit_valid(ct)

----------------------------------------------------------------------------
(* chunk.rs                                                                *)

\* the reflected form of the CRC-32/ISO-HDLC polynomial 0x04C11DB7
CrcPolyReflected == << 60856, 33568 >>     \* 0xEDB88320

\* init and xorout of CRC-32/ISO-HDLC
CrcAllOnes == << 65535, 65535 >>           \* 0xFFFFFFFF

\* one step of the bit-serial division of the reflected algorithm
CrcShift1(c) ==
    IF c[2] % 2 = 1 THEN Xor32(Shr1(c), CrcPolyReflected) ELSE Shr1(c)

\* k steps of it
CrcShift(c, k) ==
    LET sh[j \in 0..k] == IF j = 0 THEN c ELSE CrcShift1(sh[j - 1])
    IN  sh[k]

\* the byte-wise lookup table of the reflected algorithm
CrcTable == [b \in 0..255 |-> CrcShift(<< 0, b >>, 8)]

\* the register after one more input byte: table[(c ^ b) & 0xff] ^ (c >> 8)
CrcStep(c, b) ==
    Xor32(CrcTable[Xor(c[2] % 256, b)],
          << c[1] \div 256, (c[2] \div 256) + (c[1] % 256) * 256 >>)

\* the register after the bytes of `input`: digest.update(input)
CrcUpdateBlock(c, input) ==
    LET reg[i \in 0..Len(input)] ==
            IF i = 0 THEN c ELSE CrcStep(reg[i - 1], input[i])
    IN  reg[Len(input)]

RECURSIVE CrcUpdate(_, _)
RECURSIVE CrcUpdateRest(_, _)
\* the register after the bytes of `input`, taken eight bytes at a time
\* (update(a ++ b) is update(a) then update(b))
CrcUpdate(c, input) ==
    IF Len(input) <= 8 THEN CrcUpdateBlock(c, input)
    ELSE CrcUpdateRest(CrcUpdateBlock(c, SubSeq(input, 1, 8)),
                       SubSeq(input, 9, Len(input)))

\* the register `mid` a block left (a u32: it is evaluated here) taken
\* through the rest of the input
CrcUpdateRest(mid, rest) ==
    IF mid[1] < Half /\ mid[2] < Half THEN CrcUpdate(mid, rest) ELSE mid

\* crc::Crc::<u32>::new(&crc::CRC_32_ISO_HDLC).checksum(input)
Crc32IsoHdlc(input) == Xor32(CrcUpdate(CrcAllOnes, input), CrcAllOnes)

\* Chunk::new
ChunkNew(chunk_type, data) ==
    [chunk_type |-> chunk_type, data |-> data, bytes |-> data]

\* Chunk::length
length(c) == AsU32(Len(c.data))

\* a plausible slip: the checksum covers the payload only
ChunkCrcDataOnly(c) == Crc32IsoHdlc(c.data)

\* Chunk::crc
ChunkCrc(c) == Crc32IsoHdlc(bytes(c.chunk_type) \o c.data)

\* a plausible slip: the checksum is emitted little-endian
ChunkAsBytesLittleEndianCrc(c) ==
    ToBeBytes(length(c)) \o bytes(c.chunk_type) \o c.data
        \o [i \in 1..4 |-> ToBeBytes(ChunkCrc(c))[5 - i]]

\* Chunk::as_bytes
ChunkAsBytes(c) ==
    ToBeBytes(length(c)) \o bytes(c.chunk_type) \o c.data \o ToBeBytes(ChunkCrc(c))

\* a plausible slip: only the low byte of the checksum is compared
ChunkTryFromLowByte(value) ==
    IF Len(value) < 12 THEN [status |-> "panic"]
    ELSE LET c == [chunk_type |-> Slice(value, 4, 8),
                   data       |-> Slice(value, 8, Len(value) - 4),
                   bytes      |-> value]
         IN  IF value[Len(value)] # ToBeBytes(ChunkCrc(c))[4]
                 THEN [status |-> "err", error |-> "crc and calculated crc don't match"]
             ELSE [status |-> "ok", chunk |-> c]

\* impl TryFrom<&[u8]> for Chunk
ChunkTryFrom(value) ==
    IF Len(value) < 8 THEN [status |-> "panic"]           \* &value[4..8]
    ELSE LET t == ChunkTypeTryFrom(Slice(value, 4, 8))
         IN  IF t.status # "ok" THEN t
             ELSE IF Len(value) - 4 < 8 THEN [status |-> "panic"]   \* value[8..len-4]
             ELSE LET c   == [chunk_type |-> t.ct,
                              data       |-> Slice(value, 8, Len(value) - 4),
                              bytes      |-> value]
                      crc == Slice(value, Len(value) - 4, Len(value))
                  IN  IF crc # ToBeBytes(ChunkCrc(c))
                          THEN [status |-> "err",
                                error  |-> "crc and calculated crc don't match"]
                      ELSE [status |-> "ok", chunk |-> c]

\* Chunk::data_as_string
data_as_string(c) == FromUtf8(c.data)

----------------------------------------------------------------------------
(* Inputs of the codec.                                                    *)

\* "RuSt"
RuSt == << 82, 117, 83, 116 >>

\* "This is where your secret message will be!" (chunk.rs, testing_chunk)
SecretMessage ==
    << 84, 104, 105, 115, 32, 105, 115, 32, 119, 104, 101, 114, 101, 32, 121,
       111, 117, 114, 32, 115, 101, 99, 114, 101, 116, 32, 109, 101, 115, 115,
       97, 103, 101, 32, 119, 105, 108, 108, 32, 98, 101, 33 >>

\* the bytes a type code is drawn from: 'R', 'u', '1', '@' and 0xFF
TypeBytes == {82, 117, 49, 64, 255}

\* every [u8; 4] over TypeBytes
TypeQuads == [1..4 -> TypeBytes]

\* the type codes chunks are built with: "RuSt", "ruSt", "Ru1t", [255, 64, 49, 82]
ChunkTypeInputs == {RuSt, << 114, 117, 83, 116 >>, << 82, 117, 49, 116 >>,
                    << 255, 64, 49, 82 >>}

PayloadBytes == {0, 65, 255}

SeqsUpTo(S, n) == UNION {[1..k -> S] : k \in 0..n}

Payloads == SeqsUpTo(PayloadBytes, MaxPayload)

NoResult == [status |-> "none"]

\* w with bit k of its byte at 0-based position i inverted
FlipBit(w, i, k) == [w EXCEPT ![i + 1] = Xor(w[i + 1], 2 ^ k)]

\* [u8; 4] read as a big-endian u32
FromBeBytes(b) == << b[1] * 256 + b[2], b[3] * 256 + b[4] >>

----------------------------------------------------------------------------
(* The chunk codec driven from outside: a chunk is built, serialized, the  *)
(* bytes are left alone, damaged in one bit or cut short, parsed again and *)
(* the parsed chunk is serialized once more.                               *)

IdleChunk ==
    /\ chunk = NoResult /\ wire = << >> /\ tamper = [kind |-> "none"]
    /\ parsed = NoResult /\ reser = NoResult

IdleType == tinput = [kind |-> "none"] /\ ctype = NoResult /\ ttext = NoResult

InitChunk ==
    /\ \E t \in ChunkTypeInputs, d \in Payloads \cup {SecretMessage} :
          /\ d = SecretMessage => t = RuSt
          /\ chunk = [status |-> "input", chunk_type |-> t, data |-> d]
    /\ wire = << >>
    /\ tamper = [kind |-> "none"]
    /\ parsed = NoResult
    /\ reser = NoResult

\* Chunk::new(ChunkType::try_from(bytes).unwrap(), data)
New ==
    /\ chunk.status = "input"
    /\ chunk' = [status |-> "ok",
                 chunk  |-> ChunkNew(ChunkTypeTryFrom(chunk.chunk_type).ct, chunk.data)]
    /\ UNCHANGED <<wire, tamper, parsed, reser, typeVars, cmdVars>>

\* chunk.as_bytes()
Serialize ==
    /\ chunk.status = "ok"
    /\ tamper.kind = "none"
    /\ wire' = ChunkAsBytes(chunk.chunk)
    /\ tamper' = [kind |-> "serialized"]
    /\ UNCHANGED <<chunk, parsed, reser, typeVars, cmdVars>>

\* one bit of the serialized chunk is inverted
Flip ==
    /\ tamper.kind = "serialized"
    /\ parsed = NoResult
    /\ \E i \in 0..(Len(wire) - 1), k \in 0..7 :
          /\ wire' = FlipBit(wire, i, k)
          /\ tamper' = [kind |-> "flip", pos |-> i, bit |-> k]
    /\ UNCHANGED <<chunk, parsed, reser, typeVars, cmdVars>>

\* only the first n bytes of the serialized chunk are kept
Truncate ==
    /\ tamper.kind = "serialized"
    /\ parsed = NoResult
    /\ \E n \in 0..(Len(wire) - 1) :
          /\ wire' = SubSeq(wire, 1, n)
          /\ tamper' = [kind |-> "truncate", len |-> n]
    /\ UNCHANGED <<chunk, parsed, reser, typeVars, cmdVars>>

\* Chunk::try_from(&wire[..])
Parse ==
    /\ tamper.kind # "none"
    /\ parsed = NoResult
    /\ parsed' = ChunkTryFrom(wire)
    /\ UNCHANGED <<chunk, wire, tamper, reser, typeVars, cmdVars>>

\* as_bytes() of the chunk try_from returned
Reserialize ==
    /\ parsed.status = "ok"
    /\ reser = NoResult
    /\ reser' = [status |-> "ok", bytes |-> ChunkAsBytes(parsed.chunk)]
    /\ UNCHANGED <<chunk, wire, tamper, parsed, typeVars, cmdVars>>

NextChunk ==
    \/ New
    \/ Serialize
    \/ Flip
    \/ Truncate
    \/ Parse
    \/ Reserialize

----------------------------------------------------------------------------
(* The type code driven from outside: one is built from four raw bytes,    *)
(* from a string, or as the type of a parsed chunk, and rendered to text.  *)

\* the characters strings are drawn from: 'R', 'u', '1', '[' and U+00E9
Chars == {82, 117, 49, 91, 233}

\* every string over Chars up to MaxStrLen characters, and "RuSt"
Strings == SeqsUpTo(Chars, MaxStrLen) \cup {RuSt}

\* a chunk without payload, on the wire, for each type quad
BareChunkBytes(q) ==
    ToBeBytes(AsU32(0)) \o q \o ToBeBytes(Crc32IsoHdlc(q))

InitType ==
    /\ \/ \E b \in TypeQuads : tinput = [kind |-> "bytes", value |-> b]
       \/ \E s \in Strings : tinput = [kind |-> "str", value |-> s]
       \/ \E q \in TypeQuads : tinput = [kind |-> "chunk", value |-> BareChunkBytes(q)]
    /\ ctype = NoResult
    /\ ttext = NoResult

\* ChunkType::try_from(bytes)
TypeFromBytes ==
    /\ tinput.kind = "bytes"
    /\ ctype = NoResult
    /\ ctype' = ChunkTypeTryFrom(tinput.value)
    /\ UNCHANGED <<tinput, ttext, chunkVars, cmdVars>>

\* ChunkType::from_str(s)
TypeFromStr ==
    /\ tinput.kind = "str"
    /\ ctype = NoResult
    /\ ctype' = ChunkTypeFromStr(tinput.value)
    /\ UNCHANGED <<tinput, ttext, chunkVars, cmdVars>>

\* .map(|c| c.chunk_type()) on the Result of Chunk::try_from
TypeOfParsed(r) ==
    IF r.status = "ok" THEN [status |-> "ok", ct |-> r.chunk.chunk_type]
    ELSE [status |-> r.status]

\* Chunk::try_from(bytes).map(|c| c.chunk_type())
TypeFromChunk ==
    /\ tinput.kind = "chunk"
    /\ ctype = NoResult
    /\ ctype' = TypeOfParsed(ChunkTryFrom(tinput.value))
    /\ UNCHANGED <<tinput, ttext, chunkVars, cmdVars>>

\* chunk_type.to_string()
TypeToString ==
    /\ ctype.status = "ok"
    /\ ttext = NoResult
    /\ ttext' = ChunkTypeToString(ctype.ct)
    /\ UNCHANGED <<tinput, ctype, chunkVars, cmdVars>>

NextType ==
    \/ TypeFromBytes
    \/ TypeFromStr
    \/ TypeFromChunk
    \/ TypeToString

----------------------------------------------------------------------------
(* The container (png.rs, not among the sources: modelled from the         *)
(* specification's section 4.3).                                           *)

\* the fixed 8-byte signature
STANDARD_HEADER == << 137, 80, 78, 71, 13, 10, 26, 10 >>

\* the parsed chunk c in front of the chunks parsed after it
PngPrepend(c, more) ==
    IF more.status # "ok" THEN more
    ELSE [status |-> "ok", chunks |-> << c >> \o more.chunks]

RECURSIVE PngParseChunks(_)
RECURSIVE PngParseAfter(_, _)
\* the chunks of the bytes after the signature: each chunk's declared length
\* says how many bytes it takes; "short" when the buffer ends inside a chunk
\* (the parse then ends in an error or a panic: no container either way)
PngParseChunks(rest) ==
    IF rest = << >> THEN [status |-> "ok", chunks |-> << >>]
    ELSE IF Len(rest) < 4 THEN [status |-> "short"]
    ELSE LET n == FromBeBytes(SubSeq(rest, 1, 4))
         IN  IF n[1] > 0 \/ Len(rest) < 12 + n[2] THEN [status |-> "short"]
             ELSE PngParseAfter(ChunkTryFrom(SubSeq(rest, 1, 12 + n[2])),
                                SubSeq(rest, 13 + n[2], Len(rest)))

\* the first invalid chunk fails the whole parse
PngParseAfter(r, tail) ==
    IF r.status # "ok" THEN r ELSE PngPrepend(r.chunk, PngParseChunks(tail))

\* Png::try_from
PngTryFrom(b) ==
    IF Len(b) < 8 \/ SubSeq(b, 1, 8) # STANDARD_HEADER
        THEN [status |-> "err", error |-> "BadSignature"]
    ELSE PngParseChunks(SubSeq(b, 9, Len(b)))

\* Png::append_chunk
PngAppendChunk(chunks, c) == Append(chunks, c)

\* the positions of the chunks whose type's text form is type_text
PngMatches(chunks, type_text) ==
    {i \in 1..Len(chunks) :
        ChunkTypeToString(chunks[i].chunk_type) = [status |-> "ok", text |-> type_text]}

Min(S) == CHOOSE x \in S : \A y \in S : x <= y

\* the first of the matching positions m, if any
PngFirst(chunks, m) ==
    IF m = {} THEN [status |-> "none"]
    ELSE [status |-> "some", chunk |-> chunks[Min(m)]]

\* Png::chunk_by_type
PngChunkByType(chunks, type_text) == PngFirst(chunks, PngMatches(chunks, type_text))

\* the chunks without the first of the matching positions m
PngRemoveFirst(chunks, m) ==
    IF m = {} THEN [status |-> "err", error |-> "NotFound", chunks |-> chunks]
    ELSE [status |-> "ok", chunk |-> chunks[Min(m)],
          chunks |-> SubSeq(chunks, 1, Min(m) - 1)
                         \o SubSeq(chunks, Min(m) + 1, Len(chunks))]

\* Png::remove_chunk
PngRemoveChunk(chunks, type_text) ==
    PngRemoveFirst(chunks, PngMatches(chunks, type_text))

RECURSIVE ConcatChunks(_)
ConcatChunks(chunks) ==
    IF chunks = << >> THEN << >>
    ELSE ChunkAsBytes(Head(chunks)) \o ConcatChunks(Tail(chunks))

\* Png::as_bytes
PngAsBytes(chunks) == STANDARD_HEADER \o ConcatChunks(chunks)

----------------------------------------------------------------------------
(* commands.rs                                                             *)

Paths == {"in.png", "out.png"}

NoFile == [exists |-> FALSE]

File(content) == [exists |-> TRUE, content |-> content]

\* What the environment decides during a command: whether std::fs::write
\* succeeds ("ok"), fails leaving the file alone ("fail") or fails after
\* creating it empty ("torn").
Envs == {"ok", "fail", "torn"}

\* how a command ends: the step it stopped at, Ok / Err / panic, the file
\* system it leaves and the value it returns
Stop(step, status, fsv, value) ==
    [step |-> step, status |-> status, fs |-> fsv, value |-> value]

\* std::fs::write(path, contents)
FsWrite(fsv, path, contents, env) ==
    CASE env = "ok"   -> [status |-> "ok", fs |-> [fsv EXCEPT ![path] = File(contents)]]
      [] env = "fail" -> [status |-> "err", fs |-> fsv]
      [] OTHER        -> [status |-> "err", fs |-> [fsv EXCEPT ![path] = File(<< >>)]]

\* the end of a command that wrote: write(..)?; Ok(value)
AfterWrite(w, value) ==
    IF w.status # "ok" THEN Stop("write", "err", w.fs, << >>)
    ELSE Stop("done", "ok", w.fs, value)

\* encode once the type text is parsed: Chunk::new, append_chunk, write
EncodeAppend(fsv, chunks, t, message, write_path, env) ==
    IF t.status # "ok" THEN Stop("type", "err", fsv, << >>)
    ELSE AfterWrite(FsWrite(fsv, write_path,
                            PngAsBytes(PngAppendChunk(chunks,
                                           ChunkNew(t.ct, Utf8Encode(message)))),
                            env),
                    << >>)

\* encode once the file is parsed: ChunkType::from_str(&chunk_type)?
EncodeParsed(fsv, png, chunk_type, message, write_path, env) ==
    IF png.status # "ok" THEN Stop("parse", png.status, fsv, << >>)
    ELSE EncodeAppend(fsv, png.chunks, ChunkTypeFromStr(chunk_type), message,
                      write_path, env)

\* output_file.unwrap_or(file_path)
WritePath(file_path, output_file) ==
    IF output_file = << >> THEN file_path ELSE output_file[1]

\* a plausible slip: the output file is created before anything is read
EncodeRunCreateFirst(fsv, file_path, chunk_type, message, output_file, env) ==
    LET fs1 == [fsv EXCEPT ![WritePath(file_path, output_file)] = File(<< >>)]
    IN  IF ~fs1[file_path].exists THEN Stop("read", "err", fs1, << >>)
        ELSE EncodeParsed(fs1, PngTryFrom(fs1[file_path].content), chunk_type,
                          message, WritePath(file_path, output_file), env)

\* pub fn encode: read(&file_path)?, Png::try_from(..)?, then the rest
EncodeRun(fsv, file_path, chunk_type, message, output_file, env) ==
    IF ~fsv[file_path].exists THEN Stop("read", "err", fsv, << >>)
    ELSE EncodeParsed(fsv, PngTryFrom(fsv[file_path].content), chunk_type,
                      message, WritePath(file_path, output_file), env)

\* decode once the payload is read as text
DecodeText(fsv, text) ==
    IF text.status # "ok" THEN Stop("utf8", "err", fsv, << >>)
    ELSE Stop("done", "ok", fsv, text.text)

\* decode once the chunk is looked up: .context("not chunk type")?
DecodeFound(fsv, c) ==
    IF c.status # "some" THEN Stop("lookup", "err", fsv, << >>)
    ELSE DecodeText(fsv, data_as_string(c.chunk))

\* decode once the file is parsed
DecodeParsed(fsv, png, chunk_type) ==
    IF png.status # "ok" THEN Stop("parse", png.status, fsv, << >>)
    ELSE DecodeFound(fsv, PngChunkByType(png.chunks, chunk_type))

\* pub fn decode
DecodeRun(fsv, file_path, chunk_type) ==
    IF ~fsv[file_path].exists THEN Stop("read", "err", fsv, << >>)
    ELSE DecodeParsed(fsv, PngTryFrom(fsv[file_path].content), chunk_type)

\* remove once remove_chunk returned: write(file_path, png.as_bytes())?; the
\* value stands for the removed chunk, which the command returns as {:?} text
RemoveWrite(fsv, file_path, removed, env) ==
    IF removed.status # "ok" THEN Stop("remove", "err", fsv, << >>)
    ELSE AfterWrite(FsWrite(fsv, file_path, PngAsBytes(removed.chunks), env),
                    << removed.chunk >>)

\* a plausible slip: the chunk is found and returned, the container written
\* is the one that was parsed
RemoveParsedLookupOnly(fsv, file_path, png, chunk_type, env) ==
    IF png.status # "ok" THEN Stop("parse", png.status, fsv, << >>)
    ELSE RemoveWrite(fsv, file_path,
                     [PngRemoveChunk(png.chunks, chunk_type)
                          EXCEPT !.chunks = png.chunks],
                     env)

\* remove once the file is parsed: png.remove_chunk(&chunk_type)?
RemoveParsed(fsv, file_path, png, chunk_type, env) ==
    IF png.status # "ok" THEN Stop("parse", png.status, fsv, << >>)
    ELSE RemoveWrite(fsv, file_path, PngRemoveChunk(png.chunks, chunk_type), env)

\* pub fn remove
RemoveRun(fsv, file_path, chunk_type, env) ==
    IF ~fsv[file_path].exists THEN Stop("read", "err", fsv, << >>)
    ELSE RemoveParsed(fsv, file_path, PngTryFrom(fsv[file_path].content),
                      chunk_type, env)

\* print once the file is parsed
PrintParsed(fsv, png) ==
    IF png.status # "ok" THEN Stop("parse", png.status, fsv, << >>)
    ELSE Stop("done", "ok", fsv, << >>)

\* pub fn print
PrintRun(fsv, file_path) ==
    IF ~fsv[file_path].exists THEN Stop("read", "err", fsv, << >>)
    ELSE PrintParsed(fsv, PngTryFrom(fsv[file_path].content))

----------------------------------------------------------------------------
(* The commands over a file system of two paths.                           *)

\* "ruSt"
ruSt == << 114, 117, 83, 116 >>

\* the type arguments: "RuSt", "ruSt" and "Ru1t"
TypeTexts == {RuSt, ruSt, << 82, 117, 49, 116 >>}

\* the type arguments of encode: "RuSt" and "Ru1t"
EncodeTypeTexts == {RuSt, << 82, 117, 49, 116 >>}

\* the message argument: "\u{e9}"
Messages == {<< 233 >>}

\* a chunk of the given type and payload as a well-formed file holds it
WireOf(t, d) == ChunkAsBytes(ChunkNew(t, d))

\* what in.png may hold at the start
InitialFiles ==
    { NoFile,
      File(STANDARD_HEADER),
      File(STANDARD_HEADER \o WireOf(ruSt, << 255 >>)),
      File(STANDARD_HEADER \o WireOf(RuSt, << 65 >>) \o WireOf(ruSt, << >>)),
      File(<< 1, 2, 3 >>),
      File(STANDARD_HEADER \o FlipBit(WireOf(RuSt, << 65 >>), 8, 0)),
      File(STANDARD_HEADER \o SubSeq(WireOf(RuSt, << 65 >>), 1, 10)) }

IdleCmd ==
    /\ fs = [p \in Paths |-> NoFile]
    /\ fs0 = fs
    /\ last = [cmd |-> "none"]

InitCmd ==
    /\ \E f \in InitialFiles : fs = [p \in Paths |-> IF p = "in.png" THEN f ELSE NoFile]
    /\ fs0 = fs
    /\ last = [cmd |-> "none"]

\* the number of chunks of a parsed file, 0 when it does not parse
ChunksOf(png) == IF png.status = "ok" THEN Len(png.chunks) ELSE 0

\* the number of chunks of a file
ChunkCount(f) == IF ~f.exists THEN 0 ELSE ChunksOf(PngTryFrom(f.content))

Record(cmd, file_path, chunk_type, r) ==
    [cmd |-> cmd, file_path |-> file_path, chunk_type |-> chunk_type,
     step |-> r.step, status |-> r.status, value |-> r.value]

\* Command::Encode
Encode ==
    \E file_path \in Paths, chunk_type \in EncodeTypeTexts, message \in Messages,
       output_file \in {<< >>, << "out.png" >>}, env \in Envs :
        /\ ChunkCount(fs[file_path]) < MaxChunks
        /\ \E r \in {EncodeRun(fs, file_path, chunk_type, message, output_file, env)} :
              /\ fs' = r.fs
              /\ fs0' = fs
              /\ last' = Record("encode", file_path, chunk_type, r)
        /\ UNCHANGED <<chunkVars, typeVars>>

\* Command::Decode
Decode ==
    \E file_path \in Paths, chunk_type \in TypeTexts :
        /\ \E r \in {DecodeRun(fs, file_path, chunk_type)} :
              /\ fs' = r.fs
              /\ fs0' = fs
              /\ last' = Record("decode", file_path, chunk_type, r)
        /\ UNCHANGED <<chunkVars, typeVars>>

\* Command::Remove
Remove ==
    \E file_path \in Paths, chunk_type \in TypeTexts, env \in Envs :
        /\ \E r \in {RemoveRun(fs, file_path, chunk_type, env)} :
              /\ fs' = r.fs
              /\ fs0' = fs
              /\ last' = Record("remove", file_path, chunk_type, r)
        /\ UNCHANGED <<chunkVars, typeVars>>

\* Command::Print
PrintCmd ==
    \E file_path \in Paths :
        /\ \E r \in {PrintRun(fs, file_path)} :
              /\ fs' = r.fs
              /\ fs0' = fs
              /\ last' = Record("print", file_path, << >>, r)
        /\ UNCHANGED <<chunkVars, typeVars>>

----------------------------------------------------------------------------
(* The specifications.                                                     *)

\* the program: commands run one after another on the file system
Init == IdleChunk /\ IdleType /\ InitCmd

InitChunkSpec == InitChunk /\ IdleType /\ IdleCmd

InitTypeSpec == IdleChunk /\ InitType /\ IdleCmd

Next == Encode \/ Decode \/ Remove \/ PrintCmd

Spec == Init /\ [][Next]_vars

\* the chunk codec on bounded inputs
SpecChunk == InitChunkSpec /\ [][NextChunk]_vars

\* the type code on bounded inputs
SpecType == InitTypeSpec /\ [][NextType]_vars

----------------------------------------------------------------------------
(* The claims about the chunk codec, under SpecChunk.                      *)

\* C1: parsing the bytes Chunk::new(type, payload).as_bytes() produced, left
\* as they are, succeeds and gives a chunk with the type code, the payload
\* and the checksum of the chunk that was built.
C1_RoundTrip ==
    (tamper.kind = "serialized" /\ parsed # NoResult) =>
        /\ parsed.status = "ok"
        /\ parsed.chunk.chunk_type = chunk.chunk.chunk_type
        /\ parsed.chunk.data = chunk.chunk.data
        /\ ChunkCrc(parsed.chunk) = ChunkCrc(chunk.chunk)

\* a chunk of a non-alphabetic type and the longest payload came back
C1_Witness ==
    /\ tamper.kind = "serialized"
    /\ parsed.status = "ok"
    /\ chunk.chunk.chunk_type = << 255, 64, 49, 82 >>
    /\ Len(chunk.chunk.data) = MaxPayload
    /\ parsed.chunk.data = chunk.chunk.data

\* C2: as_bytes() is the payload byte count as a big-endian u32, the 4 type
\* bytes, the payload, then the big-endian CRC-32/ISO-HDLC of the type bytes
\* followed by the payload; it is 12 + payload length bytes long; for "RuSt"
\* with the 42-byte reference payload the checksum is 2882656334.
C2_Layout ==
    tamper.kind = "serialized" =>
        /\ Len(wire) = 12 + Len(chunk.chunk.data)
        /\ FromBeBytes(Slice(wire, 0, 4)) = << 0, Len(chunk.chunk.data) >>
        /\ Slice(wire, 4, 8) = chunk.chunk.chunk_type
        /\ Slice(wire, 8, Len(wire) - 4) = chunk.chunk.data
        /\ FromBeBytes(Slice(wire, Len(wire) - 4, Len(wire)))
               = Crc32IsoHdlc(chunk.chunk.chunk_type \o chunk.chunk.data)
        /\ (chunk.chunk.chunk_type = RuSt /\ chunk.chunk.data = SecretMessage) =>
               Digits(FromBeBytes(Slice(wire, Len(wire) - 4, Len(wire))))
                   = << 2, 8, 8, 2, 6, 5, 6, 3, 3, 4 >>

\* the reference chunk was serialized
C2_Witness ==
    /\ tamper.kind = "serialized"
    /\ chunk.chunk.chunk_type = RuSt
    /\ chunk.chunk.data = SecretMessage
    /\ Len(wire) = 54

\* C3: Chunk::try_from returns the checksum error, and no chunk, whenever the
\* last four bytes of the slice differ from the big-endian CRC-32 of its type
\* and payload bytes; a serialized chunk with one bit of its type or payload
\* region inverted is such a slice.
C3_ChecksumMismatch ==
    (parsed # NoResult /\ Len(wire) >= 12) =>
        /\ Slice(wire, Len(wire) - 4, Len(wire))
               # ToBeBytes(Crc32IsoHdlc(Slice(wire, 4, Len(wire) - 4)))
           => parsed = [status |-> "err",
                        error  |-> "crc and calculated crc don't match"]
        /\ (tamper.kind = "flip" /\ tamper.pos \in 4..(Len(wire) - 5))
           => parsed = [status |-> "err",
                        error  |-> "crc and calculated crc don't match"]

\* a chunk with a bit of its payload inverted was refused
C3_Witness ==
    /\ tamper.kind = "flip"
    /\ tamper.pos = 8
    /\ Len(wire) > 12
    /\ parsed.status = "err"

\* C4: for every slice Chunk::try_from accepts, as_bytes() of the chunk it
\* returns is that slice, byte for byte, the length field included.
C4_ReserializesToInput ==
    reser.status = "ok" => reser.bytes = wire

\* C5: Chunk::try_from on a slice of fewer than 12 bytes returns an error to
\* the caller; it does not panic.
C5_TooShortIsError ==
    (parsed # NoResult /\ Len(wire) < 12) => parsed.status = "err"

----------------------------------------------------------------------------
(* The claims about the type code, under SpecType.                         *)

\* C6: every type code that was constructed, from four raw bytes, from text
\* or as the type of a chunk try_from accepted, is four ASCII-alphabetic
\* bytes, and to_string() on it returns a 4-character string.
C6_AlwaysAlphabetic ==
    ctype.status = "ok" =>
        /\ Len(ctype.ct) = 4
        /\ \A i \in 1..4 : IsAsciiAlphabetic(ctype.ct[i])
        /\ ttext # NoResult => (ttext.status = "ok" /\ Len(ttext.text) = 4)

\* C7: ChunkType::from_str(s) succeeds exactly when s is four characters of
\* A-Z, a-z; then the type's bytes are the bytes of s and to_string() gives s
\* back; every other string is an error.
C7_FromStr ==
    (tinput.kind = "str" /\ ctype # NoResult) =>
        /\ ctype.status \in {"ok", "err"}
        /\ ctype.status = "ok"
           <=> /\ Len(tinput.value) = 4
               /\ \A i \in 1..Len(tinput.value) :
                      tinput.value[i] \in (65..90) \cup (97..122)
        /\ ctype.status = "ok" =>
               /\ bytes(ctype.ct) = tinput.value
               /\ ttext # NoResult => ttext = [status |-> "ok", text |-> tinput.value]

\* "RuSt" was parsed and rendered
C7_Witness ==
    /\ tinput = [kind |-> "str", value |-> RuSt]
    /\ ctype.status = "ok"
    /\ ttext.status = "ok"

\* C8: for every type code, however constructed, is_critical, is_public and
\* is_reserved_bit_valid hold exactly when bit 5 of byte 0, 1, 2 is 0,
\* is_safe_to_copy exactly when bit 5 of byte 3 is 1, and is_valid is
\* (NOT is_public AND is_reserved_bit_valid).
C8_FlagsFromBit5 ==
    ctype.status = "ok" =>
        /\ is_critical(ctype.ct) <=> Bit(ctype.ct[1], 5) = 0
        /\ is_public(ctype.ct) <=> Bit(ctype.ct[2], 5) = 0
        /\ is_reserved_bit_valid(ctype.ct) <=> Bit(ctype.ct[3], 5) = 0
        /\ is_safe_to_copy(ctype.ct) <=> Bit(ctype.ct[4], 5) = 1
        /\ is_valid(ctype.ct)
               <=> (~is_public(ctype.ct) /\ is_reserved_bit_valid(ctype.ct))

----------------------------------------------------------------------------
(* The claims about the commands, under Spec.                              *)

\* C9: a command that stops before its write leaves every file as it was;
\* decode and print leave every file as it was however they end; encode and
\* remove change a file only after the read, the container parse, the parse
\* of the type text (encode) and the removal (remove) have succeeded.
C9_Atomic ==
    last.cmd # "none" =>
        /\ last.step \notin {"write", "done"} => fs = fs0
        /\ last.cmd \in {"decode", "print"} => fs = fs0
        /\ fs # fs0 =>
               /\ fs0[last.file_path].exists
               /\ PngTryFrom(fs0[last.file_path].content).status = "ok"
               /\ last.cmd = "encode" =>
                      /\ Len(last.chunk_type) = 4
                      /\ \A i \in 1..4 : IsAsciiAlphabetic(last.chunk_type[i])
               /\ last.cmd = "remove" =>
                      \E i \in 1..Len(PngTryFrom(fs0[last.file_path].content).chunks) :
                          PngTryFrom(fs0[last.file_path].content).chunks[i].chunk_type
                              = last.chunk_type

\* encode stopped at a type text that is not alphabetic, on a file that
\* parses, and wrote nothing
C9_Witness ==
    /\ last.cmd = "encode"
    /\ last.step = "type"
    /\ last.status = "err"
    /\ fs0[last.file_path].exists
    /\ fs = fs0

=============================================================================
